---- MODULE Spec2Model ----
(***************************************************************************)
(* Model of internal/smtp/send_recorder.go: the sendRecorder, a map from   *)
(* message hash to {messageID, time} guarded by one lock, with the expiry  *)
(* sweep deleteExpiredKeys run at the start of addMessage and of           *)
(* isSendingOrSent, and the remote GetMessage call made under the lock.    *)
(*                                                                         *)
(* Time is counted in minutes.  The clock advances in steps of TickMinutes *)
(* while a goroutine is idle, waits for the lock, or is blocked in         *)
(* GetMessage; the statements between a lock acquisition and the deferred  *)
(* Unlock other than GetMessage take no clock step.                        *)
(***************************************************************************)
EXTENDS Integers, Sequences, FiniteSets, TLC

\* ---------------------------------------------------------------- bounds
\* Number of clock steps the model explores.
MaxTicks == 4
\* Minutes per clock step.
TickMinutes == 10

\* The goroutines sharing the recorder, the hashes and the message IDs.
Procs == {1, 2}
Hashes == {"h1", "h2"}
MessageIDs == {"m1", "m2"}

\* ------------------------------------------------------ program constants
\* time.Since(value.time) > 30*time.Minute
ExpiryWindow == 30
\* time.Since(time.Unix(message.Time, 0)).Minutes() > 10
DraftStuckMinutes == 10

MessageTypeInbox == "Inbox"
MessageTypeDraft == "Draft"
MessageTypeSent == "Sent"
MessageTypeInboxAndSent == "InboxAndSent"
MessageTypes ==
    {MessageTypeInbox, MessageTypeDraft, MessageTypeSent, MessageTypeInboxAndSent}

VARIABLES
    now,        \* the wall clock, in minutes
    hashes,     \* q.hashes: a function whose DOMAIN is the set of keys present
    lock,       \* q.lock: the goroutine holding it, or NoProc
    pc,         \* position of each goroutine
    arg,        \* arguments of each goroutine's current (or last) call
    value,      \* isSendingOrSent: value of `value, ok := q.hashes[hash]`
    found,      \* isSendingOrSent: ok of `value, ok := q.hashes[hash]`
    fetched,    \* IDs this call has passed to client.GetMessage, in order
    reply,      \* what client.GetMessage returned to this call
    result,     \* the named results (isSending, wasSent)
    sweptAt,    \* clock reading at which this call ran deleteExpiredKeys
    replaced,   \* addMessage: the value its store replaced (ZeroValue if none)
    written,    \* per hash, the value of the latest addMessage store
    messages,   \* getMessageHash: the messages being hashed
    sums        \* getMessageHash: the hash of each message, once computed

vars == <<now, hashes, lock, pc, arg, value, found, fetched, reply, result,
          sweptAt, replaced, written, messages, sums>>

locals == <<value, found, fetched, reply, result, sweptAt, replaced>>

NoProc == 0
NoID == ""
NoArg == [hash |-> "", messageID |-> NoID]

\* The zero sendRecorderValue, which a failed map read yields; the zero
\* time.Time lies far before every clock reading.
ZeroTime == 0 - 1000000
ZeroValue == [messageID |-> NoID, time |-> ZeroTime]

\* (isSending bool, wasSent bool): the named results start as false, false.
NoResult == [isSending |-> FALSE, wasSent |-> FALSE]

\* client.GetMessage(string) (*pmapi.Message, error)
NoReply == [err |-> FALSE, Type |-> "none", Time |-> 0]
ErrReply == [err |-> TRUE, Type |-> "nil", Time |-> 0]

Times == {k * TickMinutes : k \in 0..MaxTicks}

\* The replies GetMessage can give at clock reading t: an error, or a message
\* of any type created at some earlier clock reading.
Replies(t) ==
    {ErrReply} \cup
    {[err |-> FALSE, Type |-> ty, Time |-> tm] :
        ty \in MessageTypes, tm \in {x \in Times : x <= t}}

\* time.Since(t)
Since(t) == now - t

\* ------------------------------------------------------------ map helpers
\* value, ok := m[k]
\* Mutant: the value is read under some key of the map, not under k.
MapGetAny(m, k) ==
    IF DOMAIN m = {} THEN ZeroValue ELSE m[CHOOSE x \in DOMAIN m : x # k \/ DOMAIN m = {k}]
MapGet(m, k) == IF k \in DOMAIN m THEN m[k] ELSE ZeroValue
\* Mutant: the ok of the map read is ignored.
MapHasAlways(m, k) == TRUE
MapHas(m, k) == k \in DOMAIN m

\* Mutant: the store keeps a record that is already there.
MapPutIfAbsent(m, k, v) ==
    [x \in (DOMAIN m) \cup {k} |-> IF x \in DOMAIN m THEN m[x] ELSE v]

\* m[k] = v
MapPut(m, k, v) == [x \in (DOMAIN m) \cup {k} |-> IF x = k THEN v ELSE m[x]]

\* delete(m, k) for every k in ks
MapDelete(m, ks) == [x \in (DOMAIN m) \ ks |-> m[x]]

\* ------------------------------------------------------ deleteExpiredKeys
\* Mutant: the window is taken in hours instead of minutes.
ExpiredAfterHours(v) == Since(v.time) > ExpiryWindow * 60
\* Mutant: a record exactly ExpiryWindow old already counts as expired.
ExpiredAtWindow(v) == Since(v.time) >= ExpiryWindow
Expired(v) == Since(v.time) > ExpiryWindow

ExpiredKeys(m) == {k \in DOMAIN m : Expired(m[k])}

\* Mutant: the loop stops after the first key it deletes.
deleteOneExpiredKey(m) ==
    IF ExpiredKeys(m) = {} THEN m
    ELSE MapDelete(m, {CHOOSE k \in ExpiredKeys(m) : TRUE})

\* Mutant: the sweep deletes nothing.
deleteNoKeys(m) == m
deleteExpiredKeys(m) == MapDelete(m, ExpiredKeys(m))

\* -------------------------------------------------------------- the lock
\* Mutant: the lock is taken shared (RLock), which never waits for another holder.
CanLockShared(l) == TRUE

\* q.lock.Lock() returns only when nobody holds the lock.
CanLock(l) == l = NoProc

InCriticalSection(p) ==
    pc[p] \in {"addLocked", "addStored", "qLocked", "qGet", "qRet"}

\* Another goroutine is between Lock and Unlock while p accesses the map.
Racing(p) == \E q \in Procs \ {p} : InCriticalSection(q)

Ready(p) == pc[p] \in {"idle", "addDone", "qDone"}

\* --------------------------------------------------------------- addMessage
\* The map after `q.hashes[hash] = v` on map m.  An unsynchronised write
\* that races with another goroutine's access is a data race: the write
\* may also be lost.
StoreOutcomes(p, m, k, v) ==
    IF Racing(p) THEN {MapPut(m, k, v), m} ELSE {MapPut(m, k, v)}

addMessage(p, hash, messageID) ==
    /\ Ready(p)
    /\ pc' = [pc EXCEPT ![p] = "addWait"]
    /\ arg' = [arg EXCEPT ![p] = [hash |-> hash, messageID |-> messageID]]
    /\ UNCHANGED <<now, hashes, lock, locals, written, messages, sums>>

AddLock(p) ==
    /\ pc[p] = "addWait"
    /\ CanLock(lock)
    /\ lock' = p
    /\ pc' = [pc EXCEPT ![p] = "addLocked"]
    /\ UNCHANGED <<now, hashes, arg, locals, written, messages, sums>>

AddStore(p) ==
    /\ pc[p] = "addLocked"
    /\ LET v == [messageID |-> arg[p].messageID, time |-> now]
       IN /\ hashes' \in StoreOutcomes(p, deleteExpiredKeys(hashes), arg[p].hash, v)
          /\ written' = [written EXCEPT ![arg[p].hash] = v]
    /\ sweptAt' = [sweptAt EXCEPT ![p] = now]
    /\ replaced' = [replaced EXCEPT ![p] = MapGet(deleteExpiredKeys(hashes), arg[p].hash)]
    /\ pc' = [pc EXCEPT ![p] = "addStored"]
    /\ UNCHANGED <<now, lock, arg, value, found, fetched, reply, result, messages, sums>>

\* Mutant: addMessage returns without releasing the lock.
AddReturnLocked(p) ==
    /\ pc[p] = "addStored"
    /\ pc' = [pc EXCEPT ![p] = "addDone"]
    /\ sweptAt' = [sweptAt EXCEPT ![p] = 0]
    /\ replaced' = [replaced EXCEPT ![p] = ZeroValue]
    /\ UNCHANGED <<now, hashes, lock, arg, value, found, fetched, reply, result,
                   written, messages, sums>>

\* The deferred q.lock.Unlock() and the return.
AddUnlock(p) ==
    /\ pc[p] = "addStored"
    /\ lock' = NoProc
    /\ pc' = [pc EXCEPT ![p] = "addDone"]
    /\ sweptAt' = [sweptAt EXCEPT ![p] = 0]
    /\ replaced' = [replaced EXCEPT ![p] = ZeroValue]
    /\ UNCHANGED <<now, hashes, arg, value, found, fetched, reply, result, written, messages, sums>>

\* ---------------------------------------------------------- isSendingOrSent
\* Mutant: a draft exactly DraftStuckMinutes old already counts as stuck.
DraftStuckAtThreshold(message) == Since(message.Time) >= DraftStuckMinutes
\* Mutant: the draft is compared with the expiry window.
DraftStuckAfterExpiry(message) == Since(message.Time) > ExpiryWindow

DraftStuck(message) == Since(message.Time) > DraftStuckMinutes

\* Mutant: the age test is applied to a message of any type.
ClassifyStuckAnyType(r) ==
    IF r.err THEN NoResult
    ELSE IF DraftStuck(r) THEN NoResult
    ELSE [isSending |-> r.Type = MessageTypeDraft,
          wasSent |-> r.Type \in {MessageTypeSent, MessageTypeInboxAndSent}]

\* Mutant: a failed lookup is taken as a send still in progress.
ClassifyErrSending(r) ==
    IF r.err THEN [isSending |-> TRUE, wasSent |-> FALSE]
    ELSE IF r.Type = MessageTypeDraft /\ DraftStuck(r) THEN NoResult
    ELSE [isSending |-> r.Type = MessageTypeDraft,
          wasSent |-> r.Type \in {MessageTypeSent, MessageTypeInboxAndSent}]

\* Mutant: every message that is not a draft counts as sent.
ClassifyNotDraftIsSent(r) ==
    IF r.err THEN NoResult
    ELSE IF r.Type = MessageTypeDraft /\ DraftStuck(r) THEN NoResult
    ELSE [isSending |-> r.Type = MessageTypeDraft,
          wasSent |-> r.Type # MessageTypeDraft]

\* Mutant: every message that is not a plain inbox message counts as sent.
ClassifyNotInboxIsSent(r) ==
    IF r.err THEN NoResult
    ELSE IF r.Type = MessageTypeDraft /\ DraftStuck(r) THEN NoResult
    ELSE [isSending |-> r.Type = MessageTypeDraft,
          wasSent |-> r.Type # MessageTypeInbox]

\* Lines 95-110: the results for what GetMessage returned.
Classify(r) ==
    IF r.err THEN NoResult
    ELSE IF r.Type = MessageTypeDraft /\ DraftStuck(r) THEN NoResult
    ELSE [isSending |-> r.Type = MessageTypeDraft,
          wasSent |-> r.Type \in {MessageTypeSent, MessageTypeInboxAndSent}]

isSendingOrSent(p, hash) ==
    /\ Ready(p)
    /\ pc' = [pc EXCEPT ![p] = "qWait"]
    /\ arg' = [arg EXCEPT ![p] = [hash |-> hash, messageID |-> NoID]]
    /\ UNCHANGED <<now, hashes, lock, locals, written, messages, sums>>

QueryLock(p) ==
    /\ pc[p] = "qWait"
    /\ CanLock(lock)
    /\ lock' = p
    /\ pc' = [pc EXCEPT ![p] = "qLocked"]
    /\ UNCHANGED <<now, hashes, arg, locals, written, messages, sums>>

\* Lines 87-92: the sweep, the map read, and either the early return or the
\* call of client.GetMessage(value.messageID).
QueryRead(p) ==
    /\ pc[p] = "qLocked"
    /\ LET m == deleteExpiredKeys(hashes)
           ok == MapHas(m, arg[p].hash)
           v == MapGet(m, arg[p].hash)
       IN /\ hashes' = m
          /\ value' = [value EXCEPT ![p] = v]
          /\ found' = [found EXCEPT ![p] = ok]
          /\ IF ~ok
             THEN /\ pc' = [pc EXCEPT ![p] = "qRet"]
                  /\ fetched' = fetched
             ELSE /\ pc' = [pc EXCEPT ![p] = "qGet"]
                  /\ fetched' = [fetched EXCEPT ![p] = Append(@, v.messageID)]
    /\ sweptAt' = [sweptAt EXCEPT ![p] = now]
    /\ UNCHANGED <<now, lock, arg, reply, result, replaced, written, messages, sums>>

\* Mutant: a record resolved as sent is dropped from the map.
GetMessageReturnForget(p, r) ==
    /\ pc[p] = "qGet"
    /\ reply' = [reply EXCEPT ![p] = r]
    /\ result' = [result EXCEPT ![p] = Classify(r)]
    /\ hashes' = IF Classify(r).wasSent THEN MapDelete(hashes, {arg[p].hash}) ELSE hashes
    /\ pc' = [pc EXCEPT ![p] = "qRet"]
    /\ UNCHANGED <<now, lock, arg, value, found, fetched, sweptAt,
                   replaced, written, messages, sums>>

\* client.GetMessage returns r, and lines 95-110 set the results.
GetMessageReturn(p, r) ==
    /\ pc[p] = "qGet"
    /\ reply' = [reply EXCEPT ![p] = r]
    /\ result' = [result EXCEPT ![p] = Classify(r)]
    /\ pc' = [pc EXCEPT ![p] = "qRet"]
    /\ UNCHANGED <<now, hashes, lock, arg, value, found, fetched, sweptAt,
                   replaced, written, messages, sums>>

\* The deferred q.lock.Unlock() and the return.
QueryUnlock(p) ==
    /\ pc[p] = "qRet"
    /\ lock' = NoProc
    /\ pc' = [pc EXCEPT ![p] = "qDone"]
    /\ value' = [value EXCEPT ![p] = ZeroValue]
    /\ found' = [found EXCEPT ![p] = FALSE]
    /\ fetched' = [fetched EXCEPT ![p] = <<>>]
    /\ reply' = [reply EXCEPT ![p] = NoReply]
    /\ result' = [result EXCEPT ![p] = NoResult]
    /\ sweptAt' = [sweptAt EXCEPT ![p] = 0]
    /\ UNCHANGED <<now, hashes, arg, replaced, written, messages, sums>>

\* ------------------------------------------------------------------ clock
AtReturn(p) == pc[p] \in {"addLocked", "addStored", "qLocked", "qRet"}

Tick ==
    /\ now < MaxTicks * TickMinutes
    /\ \A p \in Procs : ~AtReturn(p)
    /\ now' = now + TickMinutes
    /\ UNCHANGED <<hashes, lock, pc, arg, locals, written, messages, sums>>

\* ------------------------------------------------------------ specification
\* newSendRecorder(): an empty map and a free lock.
Init ==
    /\ now = 0
    /\ hashes = <<>>
    /\ lock = NoProc
    /\ pc = [p \in Procs |-> "idle"]
    /\ arg = [p \in Procs |-> NoArg]
    /\ value = [p \in Procs |-> ZeroValue]
    /\ found = [p \in Procs |-> FALSE]
    /\ fetched = [p \in Procs |-> <<>>]
    /\ reply = [p \in Procs |-> NoReply]
    /\ result = [p \in Procs |-> NoResult]
    /\ sweptAt = [p \in Procs |-> 0]
    /\ replaced = [p \in Procs |-> ZeroValue]
    /\ written = [h \in Hashes |-> ZeroValue]
    /\ messages = <<>>
    /\ sums = <<>>

Next ==
    \/ \E p \in Procs, h \in Hashes, id \in MessageIDs : addMessage(p, h, id)
    \/ \E p \in Procs : AddLock(p)
    \/ \E p \in Procs : AddStore(p)
    \/ \E p \in Procs : AddUnlock(p)
    \/ \E p \in Procs, h \in Hashes : isSendingOrSent(p, h)
    \/ \E p \in Procs : QueryLock(p)
    \/ \E p \in Procs : QueryRead(p)
    \/ \E p \in Procs : \E r \in Replies(now) : GetMessageReturn(p, r)
    \/ \E p \in Procs : QueryUnlock(p)
    \/ Tick

Spec == Init /\ [][Next]_vars

\* ------------------------------------------------------------------ claims
Sending == [isSending |-> TRUE, wasSent |-> FALSE]
WasSent == [isSending |-> FALSE, wasSent |-> TRUE]

\* The call of goroutine p is isSendingOrSent and has passed its map read.
Queried(p) == pc[p] \in {"qGet", "qRet"}

\* The call of goroutine p got a message (no error) from GetMessage.
GotMessage(p) == pc[p] = "qRet" /\ fetched[p] # <<>> /\ ~reply[p].err

\* C1: a query for a hash that has no record after the sweep returns
\* (false, false) and never calls GetMessage, whatever else is in the map.
C1_UnknownHash ==
    \A p \in Procs :
        (Queried(p) /\ arg[p].hash \notin DOMAIN hashes) =>
            /\ pc[p] = "qRet"
            /\ result[p] = NoResult
            /\ fetched[p] = <<>>

C1_Witness ==
    \E p \in Procs :
        /\ pc[p] = "qRet"
        /\ arg[p].hash \notin DOMAIN hashes
        /\ DOMAIN hashes # {}
        /\ result[p] = NoResult

\* C2: a query that finds an unexpired record and whose lookup returns a
\* draft not older than DraftStuckMinutes returns (true, false).
C2_FreshDraftIsSending ==
    \A p \in Procs :
        (/\ GotMessage(p)
         /\ reply[p].Type = MessageTypeDraft
         /\ now - reply[p].Time <= DraftStuckMinutes) => result[p] = Sending

C2_Witness ==
    \E p \in Procs :
        /\ GotMessage(p)
        /\ reply[p].Type = MessageTypeDraft
        /\ now - reply[p].Time = DraftStuckMinutes
        /\ result[p] = Sending

\* C3: a query that finds an unexpired record and whose lookup returns a
\* message of type sent, or sent and received by self, returns (false, true)
\* whatever the timestamp of the message.
C3_SentIsWasSent ==
    \A p \in Procs :
        (/\ GotMessage(p)
         /\ reply[p].Type \in {MessageTypeSent, MessageTypeInboxAndSent})
            => result[p] = WasSent

C3_Witness ==
    \E p \in Procs :
        /\ GotMessage(p)
        /\ reply[p].Type = MessageTypeInboxAndSent
        /\ now - reply[p].Time > DraftStuckMinutes
        /\ result[p] = WasSent

\* C4: a query whose lookup returns a draft older than DraftStuckMinutes
\* returns (false, false), also when the record itself was stored just now.
C4_StuckDraftIsNotSending ==
    \A p \in Procs :
        (/\ GotMessage(p)
         /\ reply[p].Type = MessageTypeDraft
         /\ now - reply[p].Time > DraftStuckMinutes) => result[p] = NoResult

C4_Witness ==
    \E p \in Procs :
        /\ GotMessage(p)
        /\ reply[p].Type = MessageTypeDraft
        /\ now - reply[p].Time > DraftStuckMinutes
        /\ now - reply[p].Time <= ExpiryWindow
        /\ value[p].time = now
        /\ result[p] = NoResult

\* C5: a query whose lookup fails returns (false, false) and reaches its
\* return like any other call.
C5_LookupFailureIsNotSent ==
    \A p \in Procs :
        (Queried(p) /\ fetched[p] # <<>> /\ reply[p].err) =>
            /\ pc[p] = "qRet"
            /\ result[p] = NoResult

C5_Witness ==
    \E p \in Procs :
        /\ pc[p] = "qRet"
        /\ fetched[p] # <<>>
        /\ reply[p].err
        /\ result[p] = NoResult

\* C6: a query made more than ExpiryWindow after the latest store for its
\* hash returns (false, false) without calling GetMessage, and leaves no
\* record for the hash in the map.
C6_ExpiredRecordIsGone ==
    \A p \in Procs :
        (/\ Queried(p)
         /\ written[arg[p].hash] # ZeroValue
         /\ sweptAt[p] - written[arg[p].hash].time > ExpiryWindow) =>
            /\ pc[p] = "qRet"
            /\ result[p] = NoResult
            /\ fetched[p] = <<>>
            /\ arg[p].hash \notin DOMAIN hashes

C6_Witness ==
    \E p \in Procs :
        /\ pc[p] = "qRet"
        /\ written[arg[p].hash] # ZeroValue
        /\ sweptAt[p] - written[arg[p].hash].time > ExpiryWindow
        /\ arg[p].hash \notin DOMAIN hashes
        /\ result[p] = NoResult

\* C7: no store of addMessage is lost: as long as it has not expired, the
\* latest store for every hash is in the map with its own messageID and
\* time, so concurrent addMessage calls for distinct hashes all stay visible.
C7_NoLostWrite ==
    \A h \in Hashes :
        (written[h] # ZeroValue /\ now - written[h].time <= ExpiryWindow) =>
            (h \in DOMAIN hashes /\ hashes[h] = written[h])

C7_Witness ==
    /\ \A p \in Procs : pc[p] = "addDone"
    /\ \A p, q \in Procs :
         p # q => (arg[p].hash # arg[q].hash /\ arg[p].messageID # arg[q].messageID)
    /\ \A p \in Procs :
         /\ arg[p].hash \in DOMAIN hashes
         /\ hashes[arg[p].hash] = [messageID |-> arg[p].messageID, time |-> now]

\* C8 as stated: when an operation reaches its return, every record in the
\* map is at most ExpiryWindow old by the clock of that moment.
C8_FreshAtReturn ==
    \A p \in Procs :
        pc[p] \in {"addStored", "qRet"} =>
            \A h \in DOMAIN hashes : now - hashes[h].time <= ExpiryWindow

\* C8 amended: when an operation reaches its return, every record in the
\* map was at most ExpiryWindow old at the clock reading of the
\* operation's sweep.
C8_FreshAtSweep ==
    \A p \in Procs :
        pc[p] \in {"addStored", "qRet"} =>
            \A h \in DOMAIN hashes : sweptAt[p] - hashes[h].time <= ExpiryWindow

C8_Witness ==
    \E p \in Procs :
        /\ pc[p] = "qRet"
        /\ sweptAt[p] < now
        /\ \E h \in DOMAIN hashes :
             /\ now - hashes[h].time > ExpiryWindow
             /\ sweptAt[p] - hashes[h].time <= ExpiryWindow

\* C9: addMessage overwrites the record of its hash: after its store the
\* record carries the messageID of this call and the time of this call.
C9_LastWriteWins ==
    \A p \in Procs :
        pc[p] = "addStored" =>
            /\ arg[p].hash \in DOMAIN hashes
            /\ hashes[arg[p].hash] = [messageID |-> arg[p].messageID, time |-> now]

C9_Witness ==
    \E p \in Procs :
        /\ pc[p] = "addStored"
        /\ replaced[p] # ZeroValue
        /\ replaced[p].messageID # arg[p].messageID
        /\ replaced[p].time < now
        /\ hashes[arg[p].hash] = [messageID |-> arg[p].messageID, time |-> now]

\* C10: at most one goroutine is between Lock and Unlock, it is the holder
\* of the lock, and while a query waits for GetMessage the map does not
\* change and no other goroutine enters.
C10_MutualExclusion ==
    /\ [](\A p \in Procs : InCriticalSection(p) => lock = p)
    /\ [][\A p \in Procs :
            (pc[p] = "qGet" /\ pc'[p] = "qGet") =>
                /\ hashes' = hashes
                /\ \A q \in Procs \ {p} : ~InCriticalSection(q)']_vars

C10_Witness ==
    \E p, q \in Procs :
        /\ pc[p] = "qGet"
        /\ sweptAt[p] < now
        /\ pc[q] \in {"addWait", "qWait"}
        /\ lock = p

\* C11: a query whose lookup returns a message that is neither a draft, nor
\* sent, nor sent and received by self, returns (false, false).
C11_OtherTypeIsNotSent ==
    \A p \in Procs :
        (/\ GotMessage(p)
         /\ reply[p].Type \notin
              {MessageTypeDraft, MessageTypeSent, MessageTypeInboxAndSent})
            => result[p] = NoResult

C11_Witness ==
    \E p \in Procs :
        /\ GotMessage(p)
        /\ reply[p].Type = MessageTypeInbox
        /\ now - reply[p].Time <= DraftStuckMinutes
        /\ result[p] = NoResult

\* A step in which goroutine p runs deleteExpiredKeys (and what follows it
\* up to the store, or up to the GetMessage call or the early return).
SweepStep(p) == pc[p] \in {"addLocked", "qLocked"} /\ pc'[p] # pc[p]

\* The record under h is the one this step of addMessage stores.
StoredBy(p, h) == pc[p] = "addLocked" /\ h = arg[p].hash

\* C14: the sweep of every addMessage and isSendingOrSent removes every
\* record older than ExpiryWindow, under any hash, and keeps every record
\* that is at most ExpiryWindow old unchanged; a record exactly ExpiryWindow
\* old stays.
C14_SweepRemovesExactlyExpired ==
    [][\A p \in Procs : SweepStep(p) =>
        \A h \in DOMAIN hashes :
            IF now - hashes[h].time > ExpiryWindow
            THEN h \in DOMAIN hashes' => StoredBy(p, h)
            ELSE /\ h \in DOMAIN hashes'
                 /\ hashes'[h] = hashes[h] \/ StoredBy(p, h)]_vars

C14_Witness ==
    \E p \in Procs : \E h, g \in Hashes :
        /\ pc[p] \in {"qGet", "qRet"}
        /\ h \in DOMAIN hashes
        /\ sweptAt[p] - hashes[h].time = ExpiryWindow
        /\ g # arg[p].hash
        /\ written[g] # ZeroValue
        /\ sweptAt[p] - written[g].time > ExpiryWindow
        /\ g \notin DOMAIN hashes

\* C15: the map changes only in a step that runs the sweep: the passing of
\* time leaves it alone, so an expired record stays until the next
\* addMessage or isSendingOrSent, whose sweep leaves no expired record.
C15_EvictionOnlyOnAccess ==
    [][/\ now' # now => hashes' = hashes
       /\ hashes' # hashes => \E p \in Procs : SweepStep(p)
       /\ \A p \in Procs : SweepStep(p) =>
            \A h \in DOMAIN hashes' : now - hashes'[h].time <= ExpiryWindow]_vars

C15_Witness ==
    /\ \A p \in Procs : Ready(p)
    /\ \E p \in Procs : pc[p] # "idle"
    /\ \E h \in DOMAIN hashes : now - hashes[h].time > ExpiryWindow

\* C16: isSendingOrSent stores nothing: its sweep only removes expired
\* records, after it the map stays as it is whatever GetMessage returns, and
\* every query that finds a record calls GetMessage.
C16_QueryPersistsNothing ==
    [][\A p \in Procs :
        /\ pc[p] \in {"qGet", "qRet"} => hashes' = hashes
        /\ (pc[p] = "qLocked" /\ pc'[p] # "qLocked") =>
             /\ DOMAIN hashes' \subseteq DOMAIN hashes
             /\ \A h \in DOMAIN hashes' : hashes'[h] = hashes[h]
             /\ \A h \in DOMAIN hashes \ DOMAIN hashes' :
                    now - hashes[h].time > ExpiryWindow
             /\ arg[p].hash \in DOMAIN hashes' =>
                    (pc'[p] = "qGet" /\ fetched'[p] # <<>>)]_vars

C16_Witness ==
    \E p, q \in Procs :
        /\ p # q
        /\ pc[q] = "qDone"
        /\ arg[q].hash = arg[p].hash
        /\ pc[p] = "qRet"
        /\ result[p] = WasSent
        /\ arg[p].hash \in DOMAIN hashes
        /\ hashes[arg[p].hash] = value[p]

\* C17: isSendingOrSent never returns isSending and wasSent both true.
C17_NeverSendingAndSent ==
    \A p \in Procs : ~(result[p].isSending /\ result[p].wasSent)

C17_Witness ==
    \E p, q \in Procs :
        /\ pc[p] = "qRet"
        /\ reply[p].Type = MessageTypeSent
        /\ result[p] = WasSent
        /\ pc[q] = "qDone"

\* C18: a query calls GetMessage at most once, and with the messageID of
\* the latest addMessage store for its hash.
C18_FetchesLatestID ==
    \A p \in Procs :
        /\ Len(fetched[p]) <= 1
        /\ fetched[p] # <<>> =>
             /\ written[arg[p].hash] # ZeroValue
             /\ fetched[p][1] = written[arg[p].hash].messageID

C18_Witness ==
    \E p \in Procs : \E g \in DOMAIN hashes :
        /\ pc[p] = "qGet"
        /\ g # arg[p].hash
        /\ fetched[p] = <<written[arg[p].hash].messageID>>
        /\ hashes[g].messageID # fetched[p][1]

\* The liveness specification explores fewer clock steps than Spec: enough
\* for a draft to become stuck while a call is in progress.
LiveTicks == 2

LiveTick == now < LiveTicks * TickMinutes /\ Tick

\* The step of goroutine p that takes the lock.
Acquire(p) == AddLock(p) \/ QueryLock(p)

\* The steps of goroutine p between Lock and the return; GetMessage returns.
Continue(p) ==
    \/ AddStore(p)
    \/ AddUnlock(p)
    \/ QueryRead(p)
    \/ \E r \in Replies(now) : GetMessageReturn(p, r)
    \/ QueryUnlock(p)

\* Whether a call completes does not depend on the messageID it stores: the
\* liveness specification stores one.
LiveMessageID == CHOOSE id \in MessageIDs : TRUE

LiveNext ==
    \/ \E p \in Procs, h \in Hashes : addMessage(p, h, LiveMessageID)
    \/ \E p \in Procs, h \in Hashes : isSendingOrSent(p, h)
    \/ \E p \in Procs : Acquire(p)
    \/ \E p \in Procs : Continue(p)
    \/ LiveTick

\* Fair scheduling: a goroutine inside a call takes its next step, every
\* GetMessage call returns, and a goroutine waiting in Lock() gets the lock
\* if it is free again and again (a waiter of sync.RWMutex is not starved).
Fairness ==
    \A p \in Procs : SF_vars(Acquire(p)) /\ WF_vars(Continue(p))

LiveSpec == Init /\ [][LiveNext]_vars /\ Fairness

\* C19: the lock is held only by a goroutine inside a call, so every return
\* path has released it, and under fair scheduling every started call
\* completes.
C19_EveryCallCompletes ==
    /\ [](\A p \in Procs : lock = p => InCriticalSection(p))
    /\ \A p \in Procs : (~Ready(p)) ~> Ready(p)

C19_Witness ==
    \E p, q \in Procs :
        /\ p # q
        /\ pc[p] = "qDone"
        /\ pc[q] = "addDone"
        /\ lock = NoProc
        /\ now > 0

\* ----------------------------------------------------------- getMessageHash
\* A string is a sequence of characters; "" is <<>>.
Str1(c) == <<c>>
Str2(c, d) == <<c, d>>

\* message.Sender == nil
NoSender == [nil |-> TRUE, Address |-> <<>>]
SenderOf(a) == [nil |-> FALSE, Address |-> a]

Attachment(name, mime, size) == [Name |-> name, MIMEType |-> mime, Size |-> size]

\* The messages handed to getMessageHash.
AddressIDs == {Str1("i")}
Subjects == {<<>>, Str1("a")}
Senders == {NoSender, SenderOf(Str1("a"))}
ToLists ==
    {<<>>, <<Str1("a")>>,
     <<Str1("a"), Str1("b")>>, <<Str1("b"), Str1("a")>>,
     <<Str1("a"), Str2("a", "a")>>, <<Str2("a", "a"), Str1("a")>>}
CCLists == {<<>>, <<Str1("a")>>}
BCCLists == {<<>>, <<Str1("a")>>}
Bodies == {<<>>, Str1("a")}
AttachmentLists ==
    {<<>>,
     <<Attachment(Str1("f"), Str1("t"), 12)>>,
     <<Attachment(Str1("f"), Str2("t", "1"), 2)>>}

Messages ==
    [AddressID : AddressIDs, Subject : Subjects, Sender : Senders,
     ToList : ToLists, CCList : CCLists, BCCList : BCCLists, Body : Bodies,
     Attachments : AttachmentLists]

\* fmt.Sprintf("%d", n) for n >= 0
Digit(d) == <<"0", "1", "2", "3", "4", "5", "6", "7", "8", "9">>[d + 1]

RECURSIVE Decimal(_)
Decimal(n) ==
    IF n < 10 THEN <<Digit(n)>> ELSE Decimal(n \div 10) \o <<Digit(n % 10)>>

\* The bytes the loops over ToList, CCList and BCCList write: each
\* to.Address in list order.
RECURSIVE WriteAddresses(_)
WriteAddresses(list) ==
    IF list = <<>> THEN <<>> ELSE Head(list) \o WriteAddresses(Tail(list))

\* The bytes the loop over Attachments writes.
RECURSIVE WriteAttachments(_)
WriteAttachments(list) ==
    IF list = <<>> THEN <<>>
    ELSE Head(list).Name \o Head(list).MIMEType \o Decimal(Head(list).Size)
            \o WriteAttachments(Tail(list))

\* Everything written to the sha256 state h, in order.  The digest and its
\* "%x" formatting are taken as one-to-one, so the hash is identified with
\* the bytes hashed.
getMessageHash(message) ==
    (message.AddressID \o message.Subject)
        \o (IF ~message.Sender.nil THEN message.Sender.Address ELSE <<>>)
        \o WriteAddresses(message.ToList)
        \o WriteAddresses(message.CCList)
        \o WriteAddresses(message.BCCList)
        \o message.Body
        \o WriteAttachments(message.Attachments)

\* Two messages are hashed.
HashMessages ==
    /\ sums = <<>>
    /\ sums' = [i \in DOMAIN messages |-> getMessageHash(messages[i])]
    /\ UNCHANGED <<now, hashes, lock, pc, arg, locals, written, messages>>

HashInit ==
    /\ now = 0
    /\ hashes = <<>>
    /\ lock = NoProc
    /\ pc = [p \in Procs |-> "idle"]
    /\ arg = [p \in Procs |-> NoArg]
    /\ value = [p \in Procs |-> ZeroValue]
    /\ found = [p \in Procs |-> FALSE]
    /\ fetched = [p \in Procs |-> <<>>]
    /\ reply = [p \in Procs |-> NoReply]
    /\ result = [p \in Procs |-> NoResult]
    /\ sweptAt = [p \in Procs |-> 0]
    /\ replaced = [p \in Procs |-> ZeroValue]
    /\ written = [h \in Hashes |-> ZeroValue]
    /\ messages \in [1..2 -> Messages]
    /\ sums = <<>>

HashNext == HashMessages

HashSpec == HashInit /\ [][HashNext]_vars

\* The two lists hold the same addresses, each as often.
SameAddresses(s, t) ==
    /\ Len(s) = Len(t)
    /\ \A x \in {s[i] : i \in DOMAIN s} :
         Cardinality({i \in DOMAIN s : s[i] = x}) =
         Cardinality({i \in DOMAIN t : t[i] = x})

\* C12 as stated: two messages that differ in a hashed field get different
\* hashes.
C12_DifferentMessagesDifferentHashes ==
    (sums # <<>> /\ messages[1] # messages[2]) => sums[1] # sums[2]

\* C13 as stated: a message and the same message with its ToList reordered
\* into a different list get different hashes.
C13_ReorderedToListChangesHash ==
    (/\ sums # <<>>
     /\ [messages[1] EXCEPT !.ToList = <<>>] = [messages[2] EXCEPT !.ToList = <<>>]
     /\ SameAddresses(messages[1].ToList, messages[2].ToList)
     /\ messages[1].ToList # messages[2].ToList) => sums[1] # sums[2]

====
